---- MODULE Spec2Model ----
(***************************************************************************)
(* rader-bot: the streaming-feed lifecycle manager (BingXStreamManager,    *)
(* src/exchange/bingx.rs), the stream supervisor, the ingestion actor and  *)
(* the hybrid memory/disk market cache (Market, MarketData,                *)
(* src/market/market.rs).                                                  *)
(***************************************************************************)
EXTENDS Integers, Sequences, FiniteSets, TLC

VARIABLES
    stream_metas,    \* BingXStreamManager.stream_metas : id -> StreamMeta
    ticker_streams,  \* BingXStreamManager.ticker_streams : id -> JoinHandle
    kline_streams,   \* BingXStreamManager.kline_streams : id -> JoinHandle
    tasks,           \* every feed task ever spawned (a JoinHandle is its index)
    channel,         \* the unbounded MarketMessage channel, oldest first
    needed_streams,  \* Market.needed_streams : Vec<StreamMeta>
    supPc,           \* supervisor task: "sleep" or "loop"
    supSnapshot,     \* supervisor: active_streams taken at the start of the tick
    supIdx,          \* supervisor: position in needed_streams
    supClean,        \* no feed was closed or died since the tick's snapshot
    lastOp,          \* the open/close call of the last step, and whether it returned Some
    all_klines,      \* MarketData.all_klines : kline key -> KlineData.klines
    all_tickers,     \* MarketData.all_tickers : ticker key -> TickerData
    disk,            \* Durable Store : monthly file -> klines
    now,             \* wall clock, seconds
    last_backup,     \* MarketData.last_backup
    actorSt,         \* ingestion actor task: "running" or "panicked"
    lastIngest,      \* the add_kline call of the last step and its outcome
    sentKlines,      \* per kline key, every kline ever pushed, in push order
    lastSentTicker,  \* per symbol, the ticker pushed last
    appliedTickers,  \* per symbol, the last two tickers applied, oldest first
    flushedKlines,   \* per kline key, the klines written by completed flushes
    lastSaved,       \* per kline key, the batch of its last Durable Store write
    data_lock,       \* Market.data mutex: "free", or held by "actor" or "query"
    store_io,        \* Durable Store call in progress: "none", "save" or "load"
    qres,            \* the kline_data call of the last step and its result
    proc_pc          \* per task or caller, its position in its sequence of lock steps

vars == <<stream_metas, ticker_streams, kline_streams, tasks, channel,
          needed_streams, supPc, supSnapshot, supIdx, supClean, lastOp,
          all_klines, all_tickers, disk, now, last_backup, actorSt,
          lastIngest, sentKlines, lastSentTicker, appliedTickers,
          flushedKlines, lastSaved, data_lock, store_io, qres, proc_pc>>

mgrVars == <<stream_metas, ticker_streams, kline_streams, tasks>>
supVars == <<supPc, supSnapshot, supIdx, supClean>>
protoVars == <<proc_pc>>
lockVars == <<data_lock, store_io>>
cacheVars == <<all_klines, all_tickers, disk, last_backup, actorSt, lockVars>>
retVars == <<lastOp, lastIngest, qres>>
recvVars == <<appliedTickers, flushedKlines, lastSaved>>
sendVars == <<channel, sentKlines, lastSentTicker>>

(***************************************************************************)
(* Bounds and input sets.                                                  *)
(***************************************************************************)
MaxTasks == 2
MaxNeeded == 2
MaxChan == 2
MaxKlines == 2
MaxTime == 60
MonthLen == 50

BACKUP_INTERVAL == 20

None == "None"
Symbols == {"BTC-USDT", "ETH-USDT"}
Intervals == {None, "1m"}
StreamTypes == {"Ticker", "Kline"}
Prices == {1, 2}
TickSteps == {BACKUP_INTERVAL}

(***************************************************************************)
(* Stream identity and metadata.                                           *)
(***************************************************************************)
build_stream_id(symbol, interval) == <<symbol, interval>>

StreamIds == {build_stream_id(s, i) : s \in Symbols, i \in Intervals}

\* StreamMeta::new: last_update is the clock at creation
StreamMetaNew(id, symbol, stream_type, interval) ==
    [id |-> id, symbol |-> symbol, stream_type |-> stream_type,
     interval |-> interval, last_update |-> now]

NoMeta == [id |-> <<None, None>>, symbol |-> None, stream_type |-> None,
           interval |-> None, last_update |-> 0]

Mgr == [stream_metas |-> stream_metas, ticker_streams |-> ticker_streams,
        kline_streams |-> kline_streams, tasks |-> tasks]

Running(t) == t.st \in {"fetch", "sleep"}

RunningTasks(ts, id) == {h \in 1..Len(ts) : ts[h].id = id /\ Running(ts[h])}

Abort(ts, hs) ==
    [h \in 1..Len(ts) |->
        IF h \in hs /\ Running(ts[h]) THEN [ts[h] EXCEPT !.st = "aborted"]
        ELSE ts[h]]

(***************************************************************************)
(* BingXStreamManager::open_stream: inserts the metadata, spawns a task of *)
(* the declared kind and stores its handle under the id; a handle already  *)
(* stored under the id is dropped, which detaches its task.                *)
(***************************************************************************)
open_stream(m, meta) ==
    LET h == Len(m.tasks) + 1
        task == [id |-> meta.id, symbol |-> meta.symbol,
                 stream_type |-> meta.stream_type,
                 interval |-> meta.interval, st |-> "fetch"]
    IN [stream_metas |-> (meta.id :> meta) @@ m.stream_metas,
        ticker_streams |-> IF meta.stream_type = "Ticker"
                           THEN (meta.id :> h) @@ m.ticker_streams
                           ELSE m.ticker_streams,
        kline_streams |-> IF meta.stream_type = "Kline"
                          THEN (meta.id :> h) @@ m.kline_streams
                          ELSE m.kline_streams,
        tasks |-> Append(m.tasks, task)]

(***************************************************************************)
(* BingXStreamManager::close_stream: aborts the handles stored under the   *)
(* id, removes the metadata and returns it.                                *)
(***************************************************************************)
close_stream_bysymbol(m, stream_id) ==
    LET hs == {m.ticker_streams[i] :
                 i \in {j \in DOMAIN m.ticker_streams : j[1] = stream_id[1]}}
              \cup {m.kline_streams[i] :
                 i \in {j \in DOMAIN m.kline_streams : j[1] = stream_id[1]}}
        found == stream_id \in DOMAIN m.stream_metas
    IN [mgr |-> [m EXCEPT
                   !.tasks = Abort(m.tasks, hs),
                   !.stream_metas =
                       [i \in DOMAIN m.stream_metas \ {stream_id} |->
                           m.stream_metas[i]]],
        some |-> found,
        meta |-> IF found THEN m.stream_metas[stream_id] ELSE NoMeta]

close_stream(m, stream_id) ==
    LET hs == (IF stream_id \in DOMAIN m.ticker_streams
               THEN {m.ticker_streams[stream_id]} ELSE {})
              \cup (IF stream_id \in DOMAIN m.kline_streams
                    THEN {m.kline_streams[stream_id]} ELSE {})
        found == stream_id \in DOMAIN m.stream_metas
    IN [mgr |-> [m EXCEPT
                   !.tasks = Abort(m.tasks, hs),
                   !.stream_metas =
                       [i \in DOMAIN m.stream_metas \ {stream_id} |->
                           m.stream_metas[i]]],
        some |-> found,
        meta |-> IF found THEN m.stream_metas[stream_id] ELSE NoMeta]

active_streams(m) == {m.stream_metas[i] : i \in DOMAIN m.stream_metas}

SetMgr(m) ==
    /\ stream_metas' = m.stream_metas
    /\ ticker_streams' = m.ticker_streams
    /\ kline_streams' = m.kline_streams
    /\ tasks' = m.tasks

(***************************************************************************)
(* Market cache: keys, monthly files and the Durable Store.                *)
(***************************************************************************)
Some(x) == <<x>>
NoValue == <<>>

build_kline_key(symbol, interval) == <<symbol, "kline", interval>>

build_ticker_key(symbol) == <<symbol, "ticker">>

KlineNew(symbol, interval, open_time) ==
    [symbol |-> symbol, interval |-> interval, open_time |-> open_time]

build_kline_month_string(timestamp) == timestamp \div MonthLen

build_kline_filename(kline_key, timestamp) ==
    <<kline_key, build_kline_month_string(timestamp)>>

build_kline_filename_from_year_month(kline_key, month) == <<kline_key, month>>

\* the monthly files spanned by [from_ts, to_ts], oldest first
generate_kline_filenames_in_range(kline_key, from_ts, to_ts) ==
    LET first == build_kline_month_string(from_ts)
        last == build_kline_month_string(to_ts)
    IN [i \in 1..(IF last >= first THEN last - first + 1 ELSE 0) |->
           build_kline_filename_from_year_month(kline_key, first + i - 1)]

\* StorageManager::save_klines: appends the batch to the file of the key's
\* current month, or overwrites that file with it
save_klines(d, klines, key, t, overwrite) ==
    LET f == build_kline_filename(key, t)
    IN IF f \in DOMAIN d /\ ~overwrite THEN [d EXCEPT ![f] = @ \o klines]
       ELSE (f :> klines) @@ d

\* StorageManager::load_klines: the saved batch, or none when the file is absent
load_klines(d, filename) ==
    IF filename \in DOMAIN d THEN Some(d[filename]) ELSE NoValue

KlineData_add_kline(klines, kline) == Append(klines, kline)

KlineData_clear_klines(klines) == <<>>

TickerData_update_ticker(ticker_data, ticker) ==
    [ticker_data EXCEPT !.ticker = ticker]

\* a flush that writes one series only
SaveOne(d, ak, keys, t, overwrite) ==
    IF keys = {} THEN d
    ELSE LET k == CHOOSE x \in keys : TRUE
         IN save_klines(d, ak[k], k, t, overwrite)

RECURSIVE SaveAll(_, _, _, _, _)
SaveAll(d, ak, keys, t, overwrite) ==
    IF keys = {} THEN d
    ELSE LET k == CHOOSE x \in keys : TRUE
         IN SaveAll(save_klines(d, ak[k], k, t, overwrite), ak, keys \ {k},
                    t, overwrite)

\* a flush that writes every series and leaves the buffers as they are
add_kline_noclear(c, kline, t, fail, saved, overwrite) ==
    LET kline_key == build_kline_key(kline.symbol, kline.interval)
        ak == IF kline_key \in DOMAIN c.all_klines
              THEN [c.all_klines EXCEPT
                       ![kline_key] = KlineData_add_kline(@, kline)]
              ELSE (kline_key :> <<kline>>) @@ c.all_klines
        due == t - c.last_backup >= BACKUP_INTERVAL
    IN [all_klines |-> ak,
        disk |-> IF due
                 THEN SaveAll(c.disk, ak, IF fail THEN saved ELSE DOMAIN ak,
                              t, overwrite)
                 ELSE c.disk,
        last_backup |-> IF due /\ ~fail THEN t ELSE c.last_backup,
        flushed |-> due,
        outcome |-> IF due /\ fail THEN "panic" ELSE "ok"]

(***************************************************************************)
(* MarketData::add_kline.  c is the cache [all_klines, disk, last_backup], *)
(* t the wall clock.  fail says that a Durable Store write fails during    *)
(* the flush; saved are the keys the HashMap iteration wrote before it;     *)
(* overwrite says which of its two ways the Durable Store writes.          *)
(***************************************************************************)
add_kline(c, kline, t, fail, saved, overwrite) ==
    LET kline_key == build_kline_key(kline.symbol, kline.interval)
        ak == IF kline_key \in DOMAIN c.all_klines
              THEN [c.all_klines EXCEPT
                       ![kline_key] = KlineData_add_kline(@, kline)]
              ELSE (kline_key :> <<kline>>) @@ c.all_klines
        time_elapsed == IF t >= c.last_backup THEN t - c.last_backup ELSE 0
    IN IF time_elapsed >= BACKUP_INTERVAL
       THEN IF fail
            THEN [all_klines |-> ak,
                  disk |-> SaveAll(c.disk, ak, saved, t, overwrite),
                  last_backup |-> c.last_backup,
                  flushed |-> TRUE, outcome |-> "panic"]
            ELSE [all_klines |->
                      [k \in DOMAIN ak |-> KlineData_clear_klines(ak[k])],
                  disk |-> SaveAll(c.disk, ak, DOMAIN ak, t, overwrite),
                  last_backup |-> t,
                  flushed |-> TRUE, outcome |-> "ok"]
       ELSE [all_klines |-> ak, disk |-> c.disk,
             last_backup |-> c.last_backup,
             flushed |-> FALSE, outcome |-> "ok"]

(***************************************************************************)
(* MarketData::update_ticker and MarketData::ticker_data.                  *)
(***************************************************************************)
\* an update that keeps the ticker already cached for the symbol
update_ticker_keep(at, ticker) ==
    LET ticker_key == build_ticker_key(ticker.symbol)
    IN IF ticker_key \in DOMAIN at THEN at
       ELSE (ticker_key :> [symbol |-> ticker.symbol, ticker |-> ticker]) @@ at

update_ticker(at, ticker) ==
    LET ticker_key == build_ticker_key(ticker.symbol)
    IN IF ticker_key \in DOMAIN at
       THEN [at EXCEPT ![ticker_key] = TickerData_update_ticker(@, ticker)]
       ELSE (ticker_key :> [symbol |-> ticker.symbol, ticker |-> ticker]) @@ at

ticker_data(at, symbol) ==
    LET ticker_key == build_ticker_key(symbol)
    IN IF ticker_key \in DOMAIN at THEN Some(at[ticker_key]) ELSE NoValue

(***************************************************************************)
(* MarketData::kline_data.                                                 *)
(***************************************************************************)
RECURSIVE Concat(_)
Concat(ss) == IF ss = <<>> THEN <<>> ELSE Head(ss) \o Concat(Tail(ss))

RECURSIVE InsertSorted(_, _)
InsertSorted(s, k) ==
    IF s = <<>> THEN <<k>>
    ELSE IF Head(s).open_time <= k.open_time
         THEN <<Head(s)>> \o InsertSorted(Tail(s), k)
         ELSE <<k>> \o s

\* Vec::sort_by(open_time): a stable ascending sort
RECURSIVE SortByOpenTime(_)
SortByOpenTime(s) ==
    IF s = <<>> THEN <<>>
    ELSE InsertSorted(SortByOpenTime(SubSeq(s, 1, Len(s) - 1)), s[Len(s)])

\* a query that also reads the current month's file when from_ts is omitted
kline_data_loadnow(c, symbol, interval, from_ts, to_ts, limit, t) ==
    LET kline_key == build_kline_key(symbol, interval)
        in_mem_kline == IF kline_key \in DOMAIN c.all_klines
                        THEN c.all_klines[kline_key] ELSE <<>>
        filenames ==
            IF from_ts # NoValue
            THEN IF to_ts # NoValue
                 THEN generate_kline_filenames_in_range(
                          kline_key, from_ts[1], to_ts[1])
                 ELSE generate_kline_filenames_in_range(
                          kline_key, from_ts[1], t)
            ELSE generate_kline_filenames_in_range(kline_key, t, t)
        loaded == Concat([i \in 1..Len(filenames) |->
                     LET l == load_klines(c.disk, filenames[i])
                     IN IF l # NoValue THEN l[1] ELSE <<>>])
        merged == loaded \o in_mem_kline
        KeepFrom(k) == k.open_time >= from_ts[1]
        KeepTo(k) == k.open_time <= to_ts[1]
        filtered == IF from_ts # NoValue
                    THEN IF to_ts # NoValue
                         THEN SelectSeq(SelectSeq(merged, KeepFrom), KeepTo)
                         ELSE SelectSeq(merged, KeepFrom)
                    ELSE merged
        sorted == SortByOpenTime(filtered)
        panics == limit # NoValue /\ limit[1] > Len(sorted)
        limited == IF limit # NoValue /\ ~panics
                   THEN SubSeq(sorted, 1, limit[1]) ELSE sorted
    IN [panic |-> panics,
        some |-> ~panics /\ Len(limited) # 0,
        klines |-> IF panics THEN <<>> ELSE limited,
        loads |-> filenames]

\* a query that fails when one of the files it names does not load
kline_data_strict(c, symbol, interval, from_ts, to_ts, limit, t) ==
    LET kline_key == build_kline_key(symbol, interval)
        in_mem_kline == IF kline_key \in DOMAIN c.all_klines
                        THEN c.all_klines[kline_key] ELSE <<>>
        filenames ==
            IF from_ts # NoValue
            THEN IF to_ts # NoValue
                 THEN generate_kline_filenames_in_range(
                          kline_key, from_ts[1], to_ts[1])
                 ELSE generate_kline_filenames_in_range(
                          kline_key, from_ts[1], t)
            ELSE <<>>
        loaded == Concat([i \in 1..Len(filenames) |->
                     LET l == load_klines(c.disk, filenames[i])
                     IN IF l # NoValue THEN l[1] ELSE <<>>])
        merged == loaded \o in_mem_kline
        KeepFrom(k) == k.open_time >= from_ts[1]
        KeepTo(k) == k.open_time <= to_ts[1]
        filtered == IF from_ts # NoValue
                    THEN IF to_ts # NoValue
                         THEN SelectSeq(SelectSeq(merged, KeepFrom), KeepTo)
                         ELSE SelectSeq(merged, KeepFrom)
                    ELSE merged
        sorted == SortByOpenTime(filtered)
        panics == \/ limit # NoValue /\ limit[1] > Len(sorted)
                  \/ \E i \in 1..Len(filenames) :
                        load_klines(c.disk, filenames[i]) = NoValue
        limited == IF limit # NoValue /\ ~panics
                   THEN SubSeq(sorted, 1, limit[1]) ELSE sorted
    IN [panic |-> panics,
        some |-> ~panics /\ Len(limited) # 0,
        klines |-> IF panics THEN <<>> ELSE limited,
        loads |-> filenames]

kline_data(c, symbol, interval, from_ts, to_ts, limit, t) ==
    LET kline_key == build_kline_key(symbol, interval)
        in_mem_kline == IF kline_key \in DOMAIN c.all_klines
                        THEN c.all_klines[kline_key] ELSE <<>>
        filenames ==
            IF from_ts # NoValue
            THEN IF to_ts # NoValue
                 THEN generate_kline_filenames_in_range(
                          kline_key, from_ts[1], to_ts[1])
                 ELSE generate_kline_filenames_in_range(
                          kline_key, from_ts[1], t)
            ELSE <<>>
        loaded == Concat([i \in 1..Len(filenames) |->
                     LET l == load_klines(c.disk, filenames[i])
                     IN IF l # NoValue THEN l[1] ELSE <<>>])
        merged == loaded \o in_mem_kline
        KeepFrom(k) == k.open_time >= from_ts[1]
        KeepTo(k) == k.open_time <= to_ts[1]
        filtered == IF from_ts # NoValue
                    THEN IF to_ts # NoValue
                         THEN SelectSeq(SelectSeq(merged, KeepFrom), KeepTo)
                         ELSE SelectSeq(merged, KeepFrom)
                    ELSE merged
        sorted == SortByOpenTime(filtered)
        panics == limit # NoValue /\ limit[1] > Len(sorted)
        limited == IF limit # NoValue /\ ~panics
                   THEN SubSeq(sorted, 1, limit[1]) ELSE sorted
    IN [panic |-> panics,
        some |-> ~panics /\ Len(limited) # 0,
        klines |-> IF panics THEN <<>> ELSE limited,
        loads |-> filenames]

Cache == [all_klines |-> all_klines, disk |-> disk, last_backup |-> last_backup]

(***************************************************************************)
(* Initial state: Market::new, whose init adds the BTC-USDT ticker to the  *)
(* needed streams and spawns the ingestion actor and the supervisor.       *)
(***************************************************************************)
\* Market::add_needed_stream: the pushed StreamMeta carries the id derived
\* from (symbol, interval), and StreamType::Ticker with no interval
add_needed_stream(ns, symbol, stream_type, interval) ==
    Append(ns, StreamMetaNew(build_stream_id(symbol, interval), symbol,
                             "Ticker", None))

\* a removal that drops every needed stream of the symbol
remove_needed_stream_bysymbol(ns, symbol, stream_type, interval) ==
    LET Keep(x) == x.symbol # symbol
    IN SelectSeq(ns, Keep)

\* Market::remove_needed_stream
remove_needed_stream(ns, symbol, stream_type, interval) ==
    LET stream_id == build_stream_id(symbol, interval)
        Keep(x) == x.id # stream_id
    IN SelectSeq(ns, Keep)

(***************************************************************************)
(* The lock protocol.  Each task or caller of the core is a sequence of    *)
(* steps: the lock() it awaits, the work it does under the guards it       *)
(* holds, the point where a guard is dropped.  The locks are               *)
(* Market.needed_streams, BingXApi.stream_manager,                         *)
(* BingXStreamManager.stream_metas, Market.market_receiver and Market.data.*)
(***************************************************************************)
Locks == {"needed_streams", "stream_manager", "stream_metas",
          "market_receiver", "data"}

Procs == {"monitor", "open_stream", "close_stream", "active_streams",
          "add_needed_stream", "remove_needed_stream", "receiver",
          "query1", "query2"}

\* mutex.lock().await
acq(l) == [op |-> "acq", lock |-> l, what |-> "", to |-> 0]
\* the guard goes out of scope
rel(l) == [op |-> "rel", lock |-> l, what |-> "", to |-> 0]
\* a call made on the Market Cache under its guard
work(w) == [op |-> "work", lock |-> "", what |-> w, to |-> 0]
\* the end of a match arm
goto(n) == [op |-> "goto", lock |-> "", what |-> "", to |-> n]
\* a condition of the code: the step falls through or continues at n
branch(n) == [op |-> "branch", lock |-> "", what |-> "", to |-> n]

\* the steps before the loop over needed_streams
MonitorHead ==
    <<acq("stream_manager"), acq("stream_metas"), rel("stream_metas"),
      rel("stream_manager"), acq("needed_streams")>>

\* steps of one iteration of the loop over needed_streams
MonitorIterLen == 6

\* the iteration that starts after step b: the list is exhausted (continue
\* at end), or the snapshot has the symbol (continue at the next
\* iteration), or exchange_api.open_stream is awaited
MonitorIter(b, end) ==
    <<branch(end), branch(b + MonitorIterLen + 1),
      acq("stream_manager"), acq("stream_metas"), rel("stream_metas"),
      rel("stream_manager")>>

\* Market::init_active_stream_monitor: the guard of needed_streams lives
\* for the whole for loop, a list of up to MaxNeeded needed streams
MonitorLocks ==
    LET end == Len(MonitorHead) + MaxNeeded * MonitorIterLen + 1
    IN MonitorHead
       \o Concat([i \in 1..MaxNeeded |->
                    MonitorIter(Len(MonitorHead) + (i - 1) * MonitorIterLen,
                                end)])
       \o <<rel("needed_streams")>>

\* Market::open_stream -> BingXApi::open_stream -> BingXStreamManager::open_stream
OpenStreamLocks ==
    <<acq("stream_manager"), acq("stream_metas"), rel("stream_metas"),
      rel("stream_manager")>>

\* a close that takes stream_metas before stream_manager
CloseStreamLocksReversed ==
    <<acq("stream_metas"), acq("stream_manager"), rel("stream_manager"),
      rel("stream_metas")>>

\* Market::close_stream -> BingXApi::close_stream -> BingXStreamManager::close_stream
CloseStreamLocks ==
    <<acq("stream_manager"), acq("stream_metas"), rel("stream_metas"),
      rel("stream_manager")>>

\* Market::active_streams -> ExchangeApi::active_streams
ActiveStreamsLocks ==
    <<acq("stream_manager"), acq("stream_metas"), rel("stream_metas"),
      rel("stream_manager")>>

\* Market::add_needed_stream
AddNeededLocks ==
    <<acq("needed_streams"), rel("needed_streams")>>

\* Market::remove_needed_stream
RemoveNeededLocks ==
    <<acq("needed_streams"), rel("needed_streams")>>

\* Market::init_market_receivers: the guard of market_receiver lives for the
\* whole iteration of the while let; each arm locks data for one statement
ReceiverLocks ==
    <<acq("market_receiver"), branch(7),
      acq("data"), work("add_kline"), rel("data"), goto(10),
      acq("data"), work("update_ticker"), rel("data"),
      rel("market_receiver")>>

\* a query that reads the cache without taking the lock
QueryLocksUnguarded == <<work("query")>>

\* Market::last_price, kline_data, ticker_data, market_data
QueryLocks == <<acq("data"), work("query"), rel("data")>>

Program(p) ==
    CASE p = "monitor" -> MonitorLocks
      [] p = "open_stream" -> OpenStreamLocks
      [] p = "close_stream" -> CloseStreamLocks
      [] p = "active_streams" -> ActiveStreamsLocks
      [] p = "add_needed_stream" -> AddNeededLocks
      [] p = "remove_needed_stream" -> RemoveNeededLocks
      [] p = "receiver" -> ReceiverLocks
      [] OTHER -> QueryLocks

\* the step p is at
Instr(p) == Program(p)[proc_pc[p]]

\* the step after it; a task or caller that has ended starts over
Following(p) == IF proc_pc[p] = Len(Program(p)) THEN 1 ELSE proc_pc[p] + 1

\* the guards p holds: locked by an earlier step and not dropped since (a
\* jump passes over whole lock/drop pairs only)
Held(p) ==
    {l \in Locks :
        \E i \in 1..(proc_pc[p] - 1) :
            /\ Program(p)[i].op = "acq"
            /\ Program(p)[i].lock = l
            /\ \A j \in (i + 1)..(proc_pc[p] - 1) :
                  ~(Program(p)[j].op = "rel" /\ Program(p)[j].lock = l)}

NoOp == [op |-> "none", some |-> FALSE]

NoQuery == [valid |-> FALSE, symbol |-> None, interval |-> None,
            from_ts |-> NoValue, to_ts |-> NoValue, limit |-> NoValue,
            panic |-> FALSE, some |-> FALSE, klines |-> <<>>,
            loads |-> <<>>, unreadable |-> {}]

NoIngest == [called |-> FALSE, flushed |-> FALSE, save_failed |-> FALSE,
             outcome |-> "none"]

Ret(o, i, q) == lastOp' = o /\ lastIngest' = i /\ qres' = q

Init ==
    /\ now = 0
    /\ stream_metas = <<>>
    /\ ticker_streams = <<>>
    /\ kline_streams = <<>>
    /\ tasks = <<>>
    /\ channel = <<>>
    /\ needed_streams = add_needed_stream(<<>>, "BTC-USDT", "Ticker", None)
    /\ supPc = "sleep"
    /\ supSnapshot = {}
    /\ supIdx = 1
    /\ supClean = TRUE
    /\ lastOp = NoOp
    /\ all_klines = <<>>
    /\ all_tickers = <<>>
    /\ disk = <<>>
    /\ last_backup = 0
    /\ actorSt = "running"
    /\ lastIngest = NoIngest
    /\ sentKlines = <<>>
    /\ lastSentTicker = [s \in Symbols |-> NoValue]
    /\ appliedTickers = [s \in Symbols |-> <<>>]
    /\ flushedKlines = <<>>
    /\ lastSaved = <<>>
    /\ data_lock = "free"
    /\ store_io = "none"
    /\ qres = NoQuery
    /\ proc_pc = [p \in Procs |-> 1]

\* the manager after Open(Ticker BTC-USDT), Open(Kline BTC-USDT 1m),
\* Open(Kline ETH-USDT 1m), each task at its first fetch
OpenedMgr ==
    open_stream(open_stream(open_stream(
        [stream_metas |-> <<>>, ticker_streams |-> <<>>,
         kline_streams |-> <<>>, tasks |-> <<>>],
        StreamMetaNew(build_stream_id("BTC-USDT", None), "BTC-USDT", "Ticker", None)),
        StreamMetaNew(build_stream_id("BTC-USDT", "1m"), "BTC-USDT", "Kline", "1m")),
        StreamMetaNew(build_stream_id("ETH-USDT", "1m"), "ETH-USDT", "Kline", "1m"))

SetMgrInit ==
    /\ stream_metas = OpenedMgr.stream_metas
    /\ ticker_streams = OpenedMgr.ticker_streams
    /\ kline_streams = OpenedMgr.kline_streams
    /\ tasks = OpenedMgr.tasks

(***************************************************************************)
(* Stream orchestrator calls: BingXApi::open_stream / close_stream, each   *)
(* run under the stream manager's lock.                                    *)
(***************************************************************************)
Open(stream_type, symbol, interval) ==
    LET stream_id == build_stream_id(symbol, interval)
        open_stream_meta == StreamMetaNew(stream_id, symbol, stream_type, interval)
    IN /\ Len(tasks) < MaxTasks
       /\ SetMgr(open_stream(Mgr, open_stream_meta))
       /\ Ret([op |-> "open", some |-> TRUE], NoIngest, NoQuery)
       /\ UNCHANGED <<protoVars, needed_streams, supVars, cacheVars, recvVars, sendVars,
                      now>>

Close(stream_id) ==
    LET r == close_stream(Mgr, stream_id)
    IN /\ SetMgr(r.mgr)
       /\ Ret([op |-> "close", some |-> r.some], NoIngest, NoQuery)
       /\ supClean' = (supClean /\ ~(r.some /\ supPc = "loop"))
       /\ UNCHANGED <<protoVars, needed_streams, supPc, supSnapshot, supIdx, cacheVars,
                      recvVars, sendVars, now>>

(***************************************************************************)
(* Needed-stream declarations; both wait for the needed_streams lock,      *)
(* which the supervisor holds while it walks the list.                     *)
(***************************************************************************)
AddNeeded(symbol, stream_type, interval) ==
    /\ supPc = "sleep"
    /\ Len(needed_streams) < MaxNeeded
    /\ needed_streams' =
           add_needed_stream(needed_streams, symbol, stream_type, interval)
    /\ Ret(NoOp, NoIngest, NoQuery)
    /\ UNCHANGED <<protoVars, mgrVars, supVars, cacheVars, recvVars, sendVars,
                   now>>

\* a removal that also closes the feed of the removed id
RemoveNeededClosing(symbol, stream_type, interval) ==
    /\ supPc = "sleep"
    /\ needed_streams' =
           remove_needed_stream(needed_streams, symbol, stream_type, interval)
    /\ needed_streams' # needed_streams
    /\ SetMgr(close_stream(Mgr, build_stream_id(symbol, interval)).mgr)
    /\ Ret(NoOp, NoIngest, NoQuery)
    /\ UNCHANGED <<protoVars, supVars, cacheVars, recvVars, sendVars, now>>

RemoveNeeded(symbol, stream_type, interval) ==
    /\ supPc = "sleep"
    /\ needed_streams' =
           remove_needed_stream(needed_streams, symbol, stream_type, interval)
    /\ needed_streams' # needed_streams
    /\ Ret(NoOp, NoIngest, NoQuery)
    /\ UNCHANGED <<protoVars, mgrVars, supVars, cacheVars, recvVars, sendVars,
                   now>>

(***************************************************************************)
(* Market::init_active_stream_monitor: one tick takes the snapshot of the  *)
(* active streams, then walks needed_streams and opens every needed stream *)
(* whose symbol has no match in the snapshot.                              *)
(***************************************************************************)
SupSnapshot ==
    /\ supPc = "sleep"
    /\ supPc' = "loop"
    /\ supSnapshot' = active_streams(Mgr)
    /\ supIdx' = 1
    /\ supClean' = TRUE
    /\ Ret(NoOp, NoIngest, NoQuery)
    /\ UNCHANGED <<protoVars, mgrVars, needed_streams, cacheVars, recvVars,
                   sendVars, now>>

\* a match that compares ids instead of symbols
SupMatchById(needed_stream_meta) ==
    \E meta \in supSnapshot : meta.id = needed_stream_meta.id

SupMatch(needed_stream_meta) ==
    \E meta \in supSnapshot : meta.symbol = needed_stream_meta.symbol

SupSkip ==
    /\ supPc = "loop"
    /\ supIdx <= Len(needed_streams)
    /\ SupMatch(needed_streams[supIdx])
    /\ supIdx' = supIdx + 1
    /\ Ret(NoOp, NoIngest, NoQuery)
    /\ UNCHANGED <<protoVars, mgrVars, needed_streams, supPc, supSnapshot, supClean,
                   cacheVars, recvVars, sendVars, now>>

SupOpen ==
    /\ supPc = "loop"
    /\ supIdx <= Len(needed_streams)
    /\ ~SupMatch(needed_streams[supIdx])
    /\ Len(tasks) < MaxTasks
    /\ LET n == needed_streams[supIdx]
       IN SetMgr(open_stream(Mgr,
              StreamMetaNew(build_stream_id(n.symbol, n.interval), n.symbol,
                            n.stream_type, n.interval)))
    /\ supIdx' = supIdx + 1
    /\ Ret(NoOp, NoIngest, NoQuery)
    /\ UNCHANGED <<protoVars, needed_streams, supPc, supSnapshot, supClean, cacheVars, recvVars, sendVars, now>>

SupEnd ==
    /\ supPc = "loop"
    /\ supIdx > Len(needed_streams)
    /\ supPc' = "sleep"
    /\ supSnapshot' = {}
    /\ supIdx' = 1
    /\ supClean' = TRUE
    /\ Ret(NoOp, NoIngest, NoQuery)
    /\ UNCHANGED <<protoVars, mgrVars, needed_streams, cacheVars, recvVars, sendVars, now>>

(***************************************************************************)
(* Feed tasks: the polling loops spawned by open_stream.                   *)
(***************************************************************************)
UpdateTicker(symbol, last_price) ==
    [type |-> "UpdateTicker", symbol |-> symbol, interval |-> None,
     open_time |-> 0, last_price |-> last_price]

UpdateKline(symbol, interval, open_time) ==
    [type |-> "UpdateKline", symbol |-> symbol, interval |-> interval,
     open_time |-> open_time, last_price |-> 0]

\* open times a poll at time t can report: the candle open at t or an older one
OpenTimes(t) == {x \in {t, t - BACKUP_INTERVAL} : x >= 0}

send(ch, message) == Append(ch, message)

RECURSIVE SumLen(_, _)
SumLen(f, keys) ==
    IF keys = {} THEN 0
    ELSE LET k == CHOOSE x \in keys : TRUE
         IN Len(f[k]) + SumLen(f, keys \ {k})

TotalSent == SumLen(sentKlines, DOMAIN sentKlines)

FetchOkTicker(h, prices, cap) ==
    /\ h \in 1..Len(tasks)
    /\ tasks[h].st = "fetch"
    /\ tasks[h].stream_type = "Ticker"
    /\ Len(channel) < cap
    /\ \E p \in prices :
          /\ channel' = send(channel, UpdateTicker(tasks[h].symbol, p))
          /\ lastSentTicker' = [lastSentTicker EXCEPT
                 ![tasks[h].symbol] = Some(p)]
    /\ UNCHANGED sentKlines
    /\ tasks' = [tasks EXCEPT ![h].st = "sleep"]
    /\ Ret(NoOp, NoIngest, NoQuery)
    /\ UNCHANGED <<protoVars, stream_metas, ticker_streams, kline_streams,
                   needed_streams, supVars, cacheVars, recvVars,
                   now>>

FetchOkKline(h, cap) ==
    /\ h \in 1..Len(tasks)
    /\ tasks[h].st = "fetch"
    /\ tasks[h].stream_type = "Kline"
    /\ Len(channel) < cap
    /\ TotalSent < MaxKlines
    /\ \E ot \in OpenTimes(now) :
          LET interval == IF tasks[h].interval = None THEN "UNKNOWN"
                          ELSE tasks[h].interval
              key == build_kline_key(tasks[h].symbol, interval)
              kline == KlineNew(tasks[h].symbol, interval, ot)
          IN /\ channel' = send(channel,
                     UpdateKline(tasks[h].symbol, interval, ot))
             /\ sentKlines' =
                     IF key \in DOMAIN sentKlines
                     THEN [sentKlines EXCEPT ![key] = Append(@, kline)]
                     ELSE (key :> <<kline>>) @@ sentKlines
    /\ tasks' = [tasks EXCEPT ![h].st = "sleep"]
    /\ Ret(NoOp, NoIngest, NoQuery)
    /\ UNCHANGED <<protoVars, stream_metas, ticker_streams, kline_streams,
                   needed_streams, supVars, cacheVars, recvVars,
                   lastSentTicker, now>>

FetchFail(h) ==
    /\ h \in 1..Len(tasks)
    /\ tasks[h].st = "fetch"
    /\ tasks' = [tasks EXCEPT ![h].st = "sleep"]
    /\ Ret(NoOp, NoIngest, NoQuery)
    /\ UNCHANGED <<protoVars, stream_metas, ticker_streams, kline_streams,
                   needed_streams, supVars, cacheVars, recvVars,
                   sendVars, now>>

\* parse_kline / parse_ticker unwrap the parsed response: a response that is
\* not a JSON object panics the task
FetchPanic(h) ==
    /\ h \in 1..Len(tasks)
    /\ tasks[h].st = "fetch"
    /\ tasks' = [tasks EXCEPT ![h].st = "dead"]
    /\ supClean' = (supClean /\ supPc # "loop")
    /\ Ret(NoOp, NoIngest, NoQuery)
    /\ UNCHANGED <<protoVars, stream_metas, ticker_streams, kline_streams,
                   needed_streams, supPc, supSnapshot, supIdx, cacheVars, recvVars, sendVars, now>>

Wake(h) ==
    /\ h \in 1..Len(tasks)
    /\ tasks[h].st = "sleep"
    /\ tasks' = [tasks EXCEPT ![h].st = "fetch"]
    /\ Ret(NoOp, NoIngest, NoQuery)
    /\ UNCHANGED <<protoVars, stream_metas, ticker_streams, kline_streams,
                   needed_streams, supVars, cacheVars, recvVars,
                   sendVars, now>>

(***************************************************************************)
(* Ingestion actor: Market::init_market_receivers.                         *)
(***************************************************************************)
recv_newest(ch) ==
    [message |-> ch[Len(ch)], rest |-> SubSeq(ch, 1, Len(ch) - 1)]

recv(ch) == [message |-> Head(ch), rest |-> Tail(ch)]

\* the actor receives an UpdateKline message and add_kline applies it
IngestKline ==
    /\ actorSt = "running"
    /\ channel # <<>>
    /\ recv(channel).message.type = "UpdateKline"
    /\ LET m == recv(channel).message
           kline == KlineNew(m.symbol, m.interval, m.open_time)
           keys == DOMAIN all_klines \cup
                      {build_kline_key(kline.symbol, kline.interval)}
           ak == [k \in keys |->
                    (IF k \in DOMAIN all_klines THEN all_klines[k] ELSE <<>>)
                    \o (IF k = build_kline_key(kline.symbol, kline.interval)
                        THEN <<kline>> ELSE <<>>)]
       IN /\ \E fail \in BOOLEAN : \E overwrite \in BOOLEAN :
             \E saved \in (IF fail THEN SUBSET keys \ {keys} ELSE {keys}) :
                LET r == add_kline(Cache, kline, now, fail, saved, overwrite)
                IN /\ all_klines' = r.all_klines
                   /\ disk' = r.disk
                   /\ last_backup' = r.last_backup
                   /\ (r.flushed \/ ~fail)
                   /\ Ret(NoOp, [called |-> TRUE, flushed |-> r.flushed,
                                  save_failed |-> fail,
                                  outcome |-> r.outcome], NoQuery)
                   /\ actorSt' = IF r.outcome = "panic" THEN "panicked"
                                 ELSE "running"
                   /\ flushedKlines' =
                         IF r.flushed /\ r.outcome = "ok"
                         THEN [k \in keys |->
                                 (IF k \in DOMAIN flushedKlines
                                  THEN flushedKlines[k] ELSE <<>>)
                                 \o ak[k]]
                         ELSE flushedKlines
                   /\ lastSaved' =
                         IF r.flushed
                         THEN [k \in saved \cup DOMAIN lastSaved |->
                                 IF k \in saved THEN ak[k] ELSE lastSaved[k]]
                         ELSE lastSaved
    /\ channel' = recv(channel).rest
    /\ UNCHANGED <<protoVars, mgrVars, needed_streams, supVars, all_tickers,
                   sentKlines, lastSentTicker, appliedTickers, now>>

\* one iteration of the actor's loop on a kline: lock, add_kline, unlock
ActorKline ==
    /\ data_lock = "free"
    /\ IngestKline
    /\ UNCHANGED lockVars

ActorTicker ==
    /\ actorSt = "running"
    /\ data_lock = "free"
    /\ channel # <<>>
    /\ recv(channel).message.type = "UpdateTicker"
    /\ LET m == recv(channel).message
           ticker == [symbol |-> m.symbol, last_price |-> m.last_price]
       IN /\ all_tickers' = update_ticker(all_tickers, ticker)
          /\ appliedTickers' =
                 [appliedTickers EXCEPT ![m.symbol] =
                     IF @ = <<>> THEN <<m.last_price>>
                     ELSE <<@[Len(@)], m.last_price>>]
    /\ channel' = recv(channel).rest
    /\ Ret(NoOp, NoIngest, NoQuery)
    /\ UNCHANGED <<protoVars, mgrVars, needed_streams, supVars, all_klines,
                   disk, last_backup, actorSt, lockVars, sentKlines,
                   lastSentTicker, flushedKlines, lastSaved, now>>

(***************************************************************************)
(* Query callers and the wall clock.                                       *)
(***************************************************************************)
\* (from_ts, to_ts, limit) of the calls made
QuerySpecs == {<<NoValue, NoValue, NoValue>>,
               <<Some(0), NoValue, NoValue>>,
               <<Some(0), Some(BACKUP_INTERVAL), NoValue>>}

\* MarketData::kline_data called with the arguments, its result returned
QueryCall(symbol, interval, from_ts, to_ts, limit) ==
    /\ LET r == kline_data(Cache, symbol, interval, from_ts, to_ts, limit, now)
       IN Ret(NoOp, NoIngest,
              [valid |-> TRUE, symbol |-> symbol, interval |-> interval,
               from_ts |-> from_ts, to_ts |-> to_ts, limit |-> limit,
               panic |-> r.panic, some |-> r.some, klines |-> r.klines,
               loads |-> r.loads, unreadable |-> {}])
    /\ UNCHANGED <<protoVars, mgrVars, needed_streams, supVars, all_klines, all_tickers,
                   disk, last_backup, actorSt, recvVars, sendVars, now>>

\* Market::kline_data: lock, MarketData::kline_data, unlock
Query(symbol, interval, from_ts, to_ts, limit) ==
    /\ data_lock = "free"
    /\ QueryCall(symbol, interval, from_ts, to_ts, limit)
    /\ UNCHANGED lockVars

\* the Durable Store as load_klines finds it while the loads of the files
\* in unreadable fail: a failed load returns none, as an absent file does
Readable(d, unreadable) == [f \in DOMAIN d \ unreadable |-> d[f]]

\* Market::kline_data called while the loads of the files in unreadable fail
QueryDegraded(symbol, interval, from_ts, to_ts, limit, unreadable) ==
    /\ data_lock = "free"
    /\ LET c == [Cache EXCEPT !.disk = Readable(disk, unreadable)]
           r == kline_data(c, symbol, interval, from_ts, to_ts, limit, now)
       IN Ret(NoOp, NoIngest,
              [valid |-> TRUE, symbol |-> symbol, interval |-> interval,
               from_ts |-> from_ts, to_ts |-> to_ts, limit |-> limit,
               panic |-> r.panic, some |-> r.some, klines |-> r.klines,
               loads |-> r.loads, unreadable |-> unreadable])
    /\ UNCHANGED <<protoVars, mgrVars, needed_streams, supVars, cacheVars,
                   recvVars, sendVars, now>>

\* a clock whose passing flushes the buffers once the interval has elapsed
TickFlushing(d) ==
    /\ now + d <= MaxTime
    /\ now' = now + d
    /\ IF now + d - last_backup >= BACKUP_INTERVAL
       THEN /\ disk' = SaveAll(disk, all_klines, DOMAIN all_klines, now + d,
                               FALSE)
            /\ all_klines' = [k \in DOMAIN all_klines |->
                                 KlineData_clear_klines(all_klines[k])]
            /\ last_backup' = now + d
       ELSE UNCHANGED <<disk, all_klines, last_backup>>
    /\ Ret(NoOp, NoIngest, NoQuery)
    /\ UNCHANGED <<protoVars, mgrVars, needed_streams, supVars, all_tickers,
                   actorSt, lockVars, recvVars, sendVars>>

Tick(d) ==
    /\ now + d <= MaxTime
    /\ now' = now + d
    /\ Ret(NoOp, NoIngest, NoQuery)
    /\ UNCHANGED <<protoVars, mgrVars, needed_streams, supVars, cacheVars,
                   recvVars, sendVars>>

(***************************************************************************)
(* The same two callers of the cache, step by step: taking the Market.data *)
(* lock, the Durable Store call made inside the locked call, and the       *)
(* return that drops the guard.  The message the actor holds stays at the  *)
(* head of channel until add_kline has applied it.                         *)
(***************************************************************************)
FlushDue == now - last_backup >= BACKUP_INTERVAL

LockFrame ==
    /\ Ret(NoOp, NoIngest, NoQuery)
    /\ UNCHANGED <<protoVars, mgrVars, needed_streams, supVars, all_klines, all_tickers,
                   disk, last_backup, actorSt, recvVars, sendVars, now>>

\* market_data.lock().await of the UpdateKline arm
ActorLock ==
    /\ actorSt = "running"
    /\ channel # <<>>
    /\ recv(channel).message.type = "UpdateKline"
    /\ data_lock = "free"
    /\ data_lock' = "actor"
    /\ UNCHANGED store_io
    /\ LockFrame

\* add_kline reaches storage_manager.save_klines, the guard still alive
ActorSave ==
    /\ data_lock = "actor"
    /\ store_io = "none"
    /\ FlushDue
    /\ store_io' = "save"
    /\ UNCHANGED data_lock
    /\ LockFrame

\* add_kline returns or panics; either way the guard is dropped
ActorUnlock ==
    /\ data_lock = "actor"
    /\ (store_io = "save") = FlushDue
    /\ IngestKline
    /\ data_lock' = "free"
    /\ store_io' = "none"

\* self.data.lock().await of Market::kline_data
QueryLock ==
    /\ data_lock = "free"
    /\ data_lock' = "query"
    /\ UNCHANGED store_io
    /\ LockFrame

\* kline_data reaches storage_manager.load_klines, the guard still alive
QueryLoad ==
    /\ data_lock = "query"
    /\ store_io = "none"
    /\ store_io' = "load"
    /\ UNCHANGED data_lock
    /\ LockFrame

\* kline_data returns; a call that loaded is one that was given from_ts
QueryUnlock(symbol, interval, from_ts, to_ts, limit) ==
    /\ data_lock = "query"
    /\ (store_io = "load") = (from_ts # NoValue)
    /\ QueryCall(symbol, interval, from_ts, to_ts, limit)
    /\ data_lock' = "free"
    /\ store_io' = "none"

(***************************************************************************)
(* Steps of the lock protocol.  The data of the core is left alone: these  *)
(* steps follow who holds and who awaits which lock.                       *)
(***************************************************************************)
ProtoFrame ==
    /\ Ret(NoOp, NoIngest, NoQuery)
    /\ UNCHANGED <<mgrVars, needed_streams, supVars, cacheVars, recvVars,
                   sendVars, now>>

\* lock().await returns once no one holds the mutex
Acquire(p) ==
    /\ Instr(p).op = "acq"
    /\ \A q \in Procs : Instr(p).lock \notin Held(q)
    /\ proc_pc' = [proc_pc EXCEPT ![p] = Following(p)]
    /\ ProtoFrame

Release(p) ==
    /\ Instr(p).op = "rel"
    /\ proc_pc' = [proc_pc EXCEPT ![p] = Following(p)]
    /\ ProtoFrame

Work(p) ==
    /\ Instr(p).op = "work"
    /\ proc_pc' = [proc_pc EXCEPT ![p] = Following(p)]
    /\ ProtoFrame

Jump(p) ==
    /\ Instr(p).op \in {"goto", "branch"}
    /\ proc_pc' = [proc_pc EXCEPT ![p] = Instr(p).to]
    /\ ProtoFrame

FallThrough(p) ==
    /\ Instr(p).op = "branch"
    /\ proc_pc' = [proc_pc EXCEPT ![p] = Following(p)]
    /\ ProtoFrame

(***************************************************************************)
(* Specifications.                                                         *)
(***************************************************************************)
\* (stream_type, symbol, interval) of the open and add_needed calls made
OpenSpecs == {<<"Ticker", "BTC-USDT", None>>, <<"Kline", "BTC-USDT", "1m">>}

NeededSpecs == {<<"Ticker", "BTC-USDT", None>>, <<"Kline", "BTC-USDT", "1m">>}

\* the orchestrator, the supervisor and the feeds' first polls; nothing
\* drains the channel, which takes one message
NextStream ==
    \/ \E x \in OpenSpecs : Open(x[1], x[2], x[3])
    \/ \E id \in StreamIds : Close(id)
    \/ \E x \in NeededSpecs : AddNeeded(x[2], x[1], x[3])
    \/ \E x \in NeededSpecs : RemoveNeeded(x[2], x[1], x[3])
    \/ SupSnapshot
    \/ SupSkip
    \/ SupOpen
    \/ SupEnd
    \/ \E h \in 1..Len(tasks) : FetchOkTicker(h, {1}, 1)
    \/ \E h \in 1..Len(tasks) : FetchOkKline(h, 1)
    \/ \E h \in 1..Len(tasks) : FetchPanic(h)

SpecStream == Init /\ [][NextStream]_vars

(***************************************************************************)
(* The cache under traffic: three feeds are open (a ticker feed and two    *)
(* kline feeds), the clock advances, the actor ingests, callers query.     *)
(***************************************************************************)
InitCache ==
    /\ now = 0
    /\ SetMgrInit
    /\ channel = <<>>
    /\ needed_streams = add_needed_stream(<<>>, "BTC-USDT", "Ticker", None)
    /\ supPc = "sleep"
    /\ supSnapshot = {}
    /\ supIdx = 1
    /\ supClean = TRUE
    /\ lastOp = [op |-> "open", some |-> TRUE]
    /\ all_klines = <<>>
    /\ all_tickers = <<>>
    /\ disk = <<>>
    /\ last_backup = 0
    /\ actorSt = "running"
    /\ lastIngest = NoIngest
    /\ sentKlines = <<>>
    /\ lastSentTicker = [s \in Symbols |-> NoValue]
    /\ appliedTickers = [s \in Symbols |-> <<>>]
    /\ flushedKlines = <<>>
    /\ lastSaved = <<>>
    /\ data_lock = "free"
    /\ store_io = "none"
    /\ qres = NoQuery
    /\ proc_pc = [p \in Procs |-> 1]

KlineFeeds == {h \in 1..Len(tasks) : tasks[h].stream_type = "Kline"}

\* the kline feeds poll, the clock advances, the actor ingests and flushes,
\* callers query the BTC-USDT 1m series
NextCache ==
    \/ \E h \in KlineFeeds : FetchOkKline(h, MaxChan)
    \/ \E h \in KlineFeeds : Wake(h)
    \/ ActorKline
    \/ \E d \in TickSteps : Tick(d)
    \/ \E q \in QuerySpecs : Query("BTC-USDT", "1m", q[1], q[2], q[3])

SpecCache == InitCache /\ [][NextCache]_vars

\* the ticker feed and one kline feed poll, fetches may fail, the clock
\* advances and the actor ingests
NextActor ==
    \/ FetchOkTicker(1, Prices, MaxChan)
    \/ FetchOkKline(2, MaxChan)
    \/ \E h \in 1..2 : FetchFail(h)
    \/ \E h \in 1..2 : Wake(h)
    \/ ActorKline
    \/ ActorTicker
    \/ \E d \in TickSteps : Tick(d)

SpecActor == InitCache /\ [][NextActor]_vars

(***************************************************************************)
(* Stream orchestrator and supervisor properties (under SpecStream).       *)
(***************************************************************************)
Tracked(id) == id \in DOMAIN stream_metas

Live(id) == Tracked(id) /\ RunningTasks(tasks, id) # {}

\* C1: however often open is called with one symbol and interval, at most
\* one running feed task exists for the stream id.
C1_OneTaskPerId ==
    \A id \in StreamIds : Cardinality(RunningTasks(tasks, id)) <= 1

\* C2: a close removes the id from the tracked metadata, and no feed task
\* spawned for an id pushes onto the channel while the id is closed (not
\* tracked).
C2_NoPushAfterClose ==
    [][/\ \A id \in StreamIds : Close(id) => ~Tracked(id)'
       /\ \A h \in 1..Len(tasks) :
             (FetchOkTicker(h, {1}, 1) \/ FetchOkKline(h, 1))
                => Tracked(tasks[h].id)]_vars

\* C3: when a supervisor tick has walked the whole needed list, and no feed
\* was closed or died since the tick's snapshot, every needed stream whose
\* feed task had stopped has a live feed under its derived id again.
C3_Reconciled ==
    (supPc = "loop" /\ supIdx > Len(needed_streams) /\ supClean)
       => \A i \in 1..Len(needed_streams) :
             LET id == needed_streams[i].id
             IN (\E h \in 1..Len(tasks) :
                    tasks[h].id = id /\ ~Running(tasks[h]))
                => Live(id)

\* C8: a close of an id that is not tracked returns none and leaves the
\* tracked metadata, the task handles, the feed tasks and the needed set as
\* they were.
C8_CloseUnknown ==
    [][\A id \in StreamIds :
          (Close(id) /\ ~Tracked(id))
             => /\ ~lastOp'.some
                /\ UNCHANGED <<stream_metas, ticker_streams, kline_streams,
                               tasks, needed_streams>>]_vars

\* a close just returned none while feeds are tracked and running
C8_Witness ==
    /\ lastOp.op = "close"
    /\ ~lastOp.some
    /\ \E id \in StreamIds : Live(id)
    /\ \E id \in StreamIds : ~Tracked(id) /\ id \in DOMAIN ticker_streams

(***************************************************************************)
(* Market cache properties (under SpecCache).                              *)
(***************************************************************************)
KlineKeys == {build_kline_key(sy, "1m") : sy \in Symbols}

Buffer(key) == IF key \in DOMAIN all_klines THEN all_klines[key] ELSE <<>>

Flushed(key) ==
    IF key \in DOMAIN flushedKlines THEN flushedKlines[key] ELSE <<>>

LastSaved(key) == IF key \in DOMAIN lastSaved THEN lastSaved[key] ELSE <<>>

Sent(key) == IF key \in DOMAIN sentKlines THEN sentKlines[key] ELSE <<>>

\* every kline the Durable Store holds for the key, oldest file first
DiskKlines(key) ==
    Concat([i \in 1..(build_kline_month_string(MaxTime) + 1) |->
              IF <<key, i - 1>> \in DOMAIN disk THEN disk[<<key, i - 1>>]
              ELSE <<>>])

\* the klines of the key pushed onto the channel and not yet received
PendingKlines(key) ==
    LET IsKey(m) == /\ m.type = "UpdateKline"
                    /\ build_kline_key(m.symbol, m.interval) = key
        ms == SelectSeq(channel, IsKey)
    IN [i \in 1..Len(ms) |->
           KlineNew(ms[i].symbol, ms[i].interval, ms[i].open_time)]

InRange(ks, from, to) ==
    LET Keep(k) == k.open_time >= from /\ k.open_time <= to
    IN SelectSeq(ks, Keep)

Count(ks, k) == Cardinality({i \in 1..Len(ks) : ks[i] = k})

IsAscending(ks) ==
    \A i \in 1..(Len(ks) - 1) : ks[i].open_time <= ks[i + 1].open_time

QueryGrid == {n * 10 : n \in 0..(MaxTime \div 10)}

\* C4: with both bounds given, a range query returns exactly the klines of
\* the key, in the Durable Store or in memory, whose open_time lies in
\* [from_ts, to_ts], in ascending open_time order.
C4_RangeQuery ==
    \A key \in KlineKeys : \A from \in QueryGrid : \A to \in QueryGrid :
       LET r == kline_data(Cache, key[1], key[3], Some(from), Some(to),
                           NoValue, now)
       IN /\ ~r.panic
          /\ IsAscending(r.klines)
          /\ r.klines =
                SortByOpenTime(InRange(DiskKlines(key) \o Buffer(key), from, to))

C9_ActorKeepsRunning == actorSt = "running"

\* C10: an add_kline call whose flush met a failed Durable Store write
\* returns an error to its caller.
C10_FlushErrorReturned ==
    lastIngest.save_failed => lastIngest.outcome = "err"

(***************************************************************************)
(* Ingestion actor properties (under SpecActor).                           *)
(***************************************************************************)
\* the prices of the symbol's tickers pushed and not yet received
PendingTickers(symbol) ==
    LET IsSym(m) == m.type = "UpdateTicker" /\ m.symbol = symbol
        ms == SelectSeq(channel, IsSym)
    IN [i \in 1..Len(ms) |-> ms[i].last_price]

CachedPrice(symbol) ==
    LET r == ticker_data(all_tickers, symbol)
    IN IF r = NoValue THEN NoValue ELSE Some(r[1].ticker.last_price)

\* C6: the actor applies the messages of a key in the order they were
\* pushed: the klines received for a key (flushed, then buffered) followed
\* by those still in the channel are the klines pushed for it, in push
\* order; the ticker pushed last for a symbol is the last one waiting in
\* the channel or, when none waits, the one the cache holds.
C6_ArrivalOrder ==
    /\ \A key \in KlineKeys :
          Flushed(key) \o Buffer(key) \o PendingKlines(key) = Sent(key)
    /\ \A sy \in Symbols :
          LET pend == PendingTickers(sy)
          IN lastSentTicker[sy] =
                IF pend # <<>> THEN Some(pend[Len(pend)]) ELSE CachedPrice(sy)

\* two tickers of different prices were pushed for one symbol and both are
\* applied, and two klines of different open_time were received for one key
C6_Witness ==
    /\ appliedTickers["BTC-USDT"] = <<1, 2>>
    /\ PendingTickers("BTC-USDT") = <<>>
    /\ \E key \in KlineKeys :
          /\ Len(Sent(key)) = 2
          /\ Sent(key)[1].open_time > Sent(key)[2].open_time
          /\ PendingKlines(key) = <<>>

NextLock ==
    \/ FetchOkKline(2, MaxChan)
    \/ Wake(2)
    \/ \E d \in TickSteps : Tick(d)
    \/ ActorLock
    \/ ActorSave
    \/ ActorUnlock
    \/ QueryLock
    \/ QueryLoad
    \/ \E q \in QuerySpecs : QueryUnlock("BTC-USDT", "1m", q[1], q[2], q[3])

SpecLock == InitCache /\ [][NextLock]_vars

\* C11: whenever a Durable Store write or load is in progress, the cache
\* lock is free.
C11_NoIoUnderLock == store_io # "none" => data_lock = "free"

(***************************************************************************)
(* Feed tasks against the exchange (under SpecFeed).                       *)
(***************************************************************************)
FeedIds == {build_stream_id("BTC-USDT", None), build_stream_id("BTC-USDT", "1m")}

\* the ticker feed and one kline feed poll; the exchange answers, fails,
\* answers with something that is not a JSON object, or does not answer;
\* feeds are closed, the clock advances and the actor ingests
NextFeed ==
    \/ \E id \in FeedIds : Close(id)
    \/ FetchOkTicker(1, {1}, MaxChan)
    \/ FetchOkKline(2, MaxChan)
    \/ \E h \in 1..2 : FetchFail(h)
    \/ \E h \in 1..2 : FetchPanic(h)
    \/ \E h \in 1..2 : Wake(h)
    \/ ActorKline
    \/ ActorTicker
    \/ \E d \in TickSteps : Tick(d)

\* the runtime schedules a task whose sleep is over and the actor when a
\* message waits; nothing obliges the exchange to answer a request
FairFeed ==
    /\ \A h \in 1..2 : WF_vars(Wake(h))
    /\ WF_vars(ActorKline)
    /\ WF_vars(ActorTicker)

SpecFeed == InitCache /\ [][NextFeed]_vars /\ FairFeed

\* C12: a feed task is still running after a failed fetch, whether the
\* request failed or the response could not be parsed.
C12_FetchFailureKeepsTask ==
    [][\A h \in 1..Len(tasks) :
          (FetchFail(h) \/ FetchPanic(h)) => Running(tasks'[h])]_vars

KlinesReceived ==
    SumLen(flushedKlines, DOMAIN flushedKlines)
       + SumLen(all_klines, DOMAIN all_klines)

\* C18: the klines pushed onto the channel before a close are all received
\* and applied by the actor eventually.
C18_InFlightDelivered ==
    \A n \in 0..MaxKlines :
       [](((lastOp.op = "close" /\ TotalSent = n) => <>(KlinesReceived >= n)))

\* C20: every fetch a feed task starts comes to an end, so the task leaves
\* its fetch and polls again.
C20_FetchCompletes ==
    \A h \in 1..2 : [](tasks[h].st = "fetch" => <>(tasks[h].st # "fetch"))

\* C13: a successful fetch pushes one message onto the channel and leaves
\* the feed's tracked StreamMeta with a last_update no older than the poll.
C13_PollAdvancesLastUpdate ==
    [][\A h \in 1..Len(tasks) :
          (FetchOkTicker(h, Prices, MaxChan) \/ FetchOkKline(h, MaxChan))
          => /\ Len(channel') = Len(channel) + 1
             /\ tasks[h].id \in DOMAIN stream_metas'
                   => stream_metas'[tasks[h].id].last_update >= now]_vars

(***************************************************************************)
(* Range queries: limit, bounds, store loads (under SpecQuery).            *)
(***************************************************************************)
\* (from_ts, to_ts, limit) of the calls made
LimitQuerySpecs == {<<NoValue, NoValue, Some(0)>>,
                    <<NoValue, NoValue, Some(1)>>,
                    <<NoValue, NoValue, Some(2)>>,
                    <<Some(0), NoValue, Some(1)>>,
                    <<NoValue, NoValue, NoValue>>,
                    <<NoValue, Some(0), NoValue>>,
                    <<NoValue, Some(20), NoValue>>,
                    <<Some(20), NoValue, NoValue>>,
                    <<Some(0), Some(MaxTime), NoValue>>}

\* the sets of monthly files of the queried key whose load fails
UnreadableSets ==
    {{}} \cup {{build_kline_filename_from_year_month(
                   build_kline_key("BTC-USDT", "1m"), m)} :
               m \in 0..build_kline_month_string(MaxTime)}

\* (from_ts, to_ts, limit, unreadable) of the calls made: loads can fail
\* only in a call that loads
DegradedCalls ==
    {<<q[1], q[2], q[3], u>> : q \in LimitQuerySpecs, u \in {{}}} \cup
    {<<q[1], q[2], q[3], u>> :
        q \in {x \in LimitQuerySpecs : x[1] # NoValue}, u \in UnreadableSets}

\* one kline feed polls, the clock advances, the actor ingests and flushes,
\* callers query the series with limits, one-sided bounds and failing loads
NextQuery ==
    \/ FetchOkKline(2, MaxChan)
    \/ Wake(2)
    \/ ActorKline
    \/ \E d \in TickSteps : Tick(d)
    \/ \E q \in DegradedCalls :
          QueryDegraded("BTC-USDT", "1m", q[1], q[2], q[3], q[4])

SpecQuery == InitCache /\ [][NextQuery]_vars

\* what steps (a)-(d) of the call just made give: the readable files the
\* call names and the buffer, filtered by the bounds given, sorted
QueryMatches ==
    LET key == build_kline_key(qres.symbol, qres.interval)
        d == Readable(disk, qres.unreadable)
        files == Concat([i \in 1..Len(qres.loads) |->
                    IF qres.loads[i] \in DOMAIN d THEN d[qres.loads[i]]
                    ELSE <<>>])
        KeepFrom(k) == qres.from_ts = NoValue \/ k.open_time >= qres.from_ts[1]
        KeepTo(k) == qres.to_ts = NoValue \/ k.open_time <= qres.to_ts[1]
    IN SortByOpenTime(
          SelectSeq(SelectSeq(files \o Buffer(key), KeepFrom), KeepTo))

Min(a, b) == IF a <= b THEN a ELSE b

\* C14: a query with limit L completes normally and returns the first L
\* klines of the sorted filtered result, or all of them when fewer match;
\* it returns none when that is empty.
C14_LimitTruncates ==
    (qres.valid /\ qres.limit # NoValue)
    => /\ ~qres.panic
       /\ qres.klines =
             SubSeq(QueryMatches, 1, Min(qres.limit[1], Len(QueryMatches)))
       /\ qres.some = (qres.klines # <<>>)

\* C15: a query given to_ts returns no kline with open_time above to_ts,
\* and a query given from_ts returns none with open_time below from_ts.
C15_BoundsRespected ==
    qres.valid
    => \A i \in 1..Len(qres.klines) :
          /\ qres.to_ts # NoValue => qres.klines[i].open_time <= qres.to_ts[1]
          /\ qres.from_ts # NoValue
                => qres.klines[i].open_time >= qres.from_ts[1]

SubBag(ks, of) == \A i \in 1..Len(ks) : Count(ks, ks[i]) <= Count(of, ks[i])

QueryKey == build_kline_key("BTC-USDT", "1m")

OptTimes == {NoValue} \cup {Some(n * BACKUP_INTERVAL) :
                              n \in 0..(MaxTime \div BACKUP_INTERVAL)}

\* C16: a query without from_ts names no file of the Durable Store and
\* returns only klines that are in the key's buffer, whatever to_ts and
\* limit are and whatever was flushed before; the calls made did so.
C16_NoLoadWithoutFrom ==
    /\ \A to \in OptTimes : \A limit \in {NoValue, Some(0), Some(1)} :
          LET r == kline_data(Cache, QueryKey[1], QueryKey[3], NoValue, to,
                              limit, now)
          IN /\ r.loads = <<>>
             /\ SubBag(r.klines, Buffer(QueryKey))
             /\ r = kline_data([Cache EXCEPT !.disk = <<>>], QueryKey[1],
                               QueryKey[3], NoValue, to, limit, now)
    /\ (qres.valid /\ qres.from_ts = NoValue)
          => /\ qres.loads = <<>>
             /\ SubBag(qres.klines, Buffer(QueryKey))

\* a query without bounds just returned the buffered klines of a key whose
\* earlier klines are in the Durable Store
C16_Witness ==
    /\ qres.valid
    /\ qres.from_ts = NoValue
    /\ qres.limit = NoValue
    /\ DiskKlines(QueryKey) # <<>>
    /\ Buffer(QueryKey) # <<>>
    /\ qres.klines = Buffer(QueryKey)

\* the klines of the key's monthly files from the month of from to the month
\* of to that are stored and load, oldest file first
LoadableKlines(key, from, to, unreadable) ==
    LET first == build_kline_month_string(from)
        last == build_kline_month_string(to)
        d == Readable(disk, unreadable)
    IN Concat([i \in 1..(IF last >= first THEN last - first + 1 ELSE 0) |->
                 IF <<key, first + i - 1>> \in DOMAIN d
                 THEN d[<<key, first + i - 1>>] ELSE <<>>])

\* C19: a range query in which the load of one monthly file fails, or the
\* file is absent, completes and returns the klines in range of the other
\* monthly files and of the buffer; the calls made did so.
C19_FailedLoadSkipped ==
    /\ \A from \in OptTimes \ {NoValue} : \A to \in OptTimes \ {NoValue} :
       \A u \in UnreadableSets :
          LET r == kline_data([Cache EXCEPT !.disk = Readable(disk, u)],
                              QueryKey[1], QueryKey[3], from, to, NoValue, now)
              expected ==
                 SortByOpenTime(InRange(
                    LoadableKlines(QueryKey, from[1], to[1], u)
                       \o Buffer(QueryKey), from[1], to[1]))
          IN /\ ~r.panic
             /\ r.klines = expected
             /\ r.some = (expected # <<>>)
    /\ (qres.valid /\ qres.from_ts # NoValue /\ qres.limit = NoValue)
          => /\ ~qres.panic
             /\ qres.klines = QueryMatches

\* a query over two months just returned the klines of the second month's
\* file while the load of the first month's file, which holds klines in
\* range, failed
C19_Witness ==
    LET f0 == build_kline_filename_from_year_month(QueryKey, 0)
        f1 == build_kline_filename_from_year_month(QueryKey, 1)
    IN /\ qres.valid
       /\ qres.from_ts = Some(0)
       /\ qres.to_ts = Some(MaxTime)
       /\ qres.unreadable = {f0}
       /\ qres.loads = <<f0, f1>>
       /\ f0 \in DOMAIN disk /\ disk[f0] # <<>>
       /\ f1 \in DOMAIN disk /\ disk[f1] # <<>>
       /\ ~qres.panic
       /\ qres.klines = SortByOpenTime(disk[f1] \o Buffer(QueryKey))

(***************************************************************************)
(* Supervisor and needed set, frame (under SpecStream).                    *)
(***************************************************************************)
\* C17: no step of the supervisor loop removes a tracked feed or stops a
\* task, and remove_needed leaves the tracked feeds, the stored handles and
\* the tasks exactly as they were.
C17_NeverCloses ==
    [][/\ (SupSnapshot \/ SupSkip \/ SupOpen \/ SupEnd)
          => /\ DOMAIN stream_metas \subseteq DOMAIN stream_metas'
             /\ \A h \in 1..Len(tasks) : tasks'[h] = tasks[h]
       /\ \A x \in NeededSpecs :
             RemoveNeeded(x[2], x[1], x[3]) => UNCHANGED mgrVars]_vars

\* the BTC-USDT ticker feed is live and tracked and its id, needed at the
\* start, is no longer in the needed set
C17_Witness ==
    LET id == build_stream_id("BTC-USDT", None)
    IN /\ Live(id)
       /\ \A i \in 1..Len(needed_streams) : needed_streams[i].id # id


(***************************************************************************)
(* The lock protocol of every task and caller, interleaved.                *)
(***************************************************************************)
NextLocks ==
    \/ \E p \in Procs : Acquire(p)
    \/ \E p \in Procs : Release(p)
    \/ \E p \in Procs : Work(p)
    \/ \E p \in Procs : Jump(p)
    \/ \E p \in Procs : FallThrough(p)

\* a task that can step does step, and the tokio Mutex hands the lock to its
\* waiters in the order they asked, so a waiter for a lock that keeps being
\* released gets it
FairLocks ==
    \A p \in Procs :
        /\ SF_vars(Acquire(p))
        /\ WF_vars(Release(p) \/ Work(p) \/ Jump(p) \/ FallThrough(p))

SpecLocks == InitCache /\ [][NextLocks]_vars

SpecLocksFair == SpecLocks /\ FairLocks

\* p is inside a call on the Market Cache
InCache(p) ==
    /\ Instr(p).op = "work"
    /\ Instr(p).what \in {"add_kline", "update_ticker", "query"}

\* C21: at most one operation executes against the Market Cache at any
\* time: the actor's add_kline or update_ticker and the queries of the
\* callers never overlap, and whoever is inside holds the lock of data.
C21_CacheExclusive ==
    /\ Cardinality({p \in Procs : InCache(p)}) <= 1
    /\ \A p \in Procs : InCache(p) => "data" \in Held(p)

\* C21: a query is inside the cache while the actor, a kline in hand,
\* awaits the lock, and the other caller awaits it too
C21_Witness ==
    /\ InCache("query1")
    /\ proc_pc["receiver"] = 3
    /\ Instr("receiver").op = "acq"
    /\ Instr("query2").op = "acq"


(***************************************************************************)
(* Supervisor and needed set, reconciliation (under SpecStream).           *)
(***************************************************************************)
SnapshotHas(symbol) == \E meta \in supSnapshot : meta.symbol = symbol

\* C22: a tick takes its snapshot of the tracked feeds first, then walks
\* the needed list one spec at a time: it opens a feed for the spec when no
\* feed of the snapshot has the spec's symbol, and only then; when one has,
\* whatever its kind and interval, the spec is passed over and nothing is
\* opened; the tick ends only after the last spec.
C22_OpensUnmatched ==
    [][/\ SupSnapshot
          => /\ supSnapshot' = {stream_metas[i] : i \in DOMAIN stream_metas}
             /\ UNCHANGED mgrVars
       /\ SupOpen
          => /\ ~SnapshotHas(needed_streams[supIdx].symbol)
             /\ Len(tasks') = Len(tasks) + 1
             /\ tasks'[Len(tasks')].symbol = needed_streams[supIdx].symbol
             /\ supIdx' = supIdx + 1
       /\ SupSkip
          => /\ SnapshotHas(needed_streams[supIdx].symbol)
             /\ UNCHANGED mgrVars
             /\ supIdx' = supIdx + 1
       /\ SupEnd
          => /\ supIdx > Len(needed_streams)
             /\ UNCHANGED mgrVars]_vars

\* C22: the tick has passed over the needed BTC-USDT ticker spec because its
\* snapshot holds a kline feed of that symbol; no ticker feed was ever opened
C22_Witness ==
    /\ supPc = "loop"
    /\ supIdx = 2
    /\ needed_streams[1].stream_type = "Ticker"
    /\ supSnapshot # {}
    /\ \A meta \in supSnapshot :
          /\ meta.symbol = needed_streams[1].symbol
          /\ meta.stream_type = "Kline"
          /\ meta.id # needed_streams[1].id
    /\ \A h \in 1..Len(tasks) : tasks[h].stream_type = "Kline"

\* C23: add_needed(symbol, stream_kind, interval) appends a spec carrying
\* that symbol, that stream kind and that interval, with the id derived from
\* (symbol, interval).
C23_AddNeededAsDeclared ==
    [][\A x \in NeededSpecs :
          AddNeeded(x[2], x[1], x[3])
          => LET n == needed_streams'[Len(needed_streams')]
             IN /\ n.symbol = x[2]
                /\ n.stream_type = x[1]
                /\ n.interval = x[3]
                /\ n.id = build_stream_id(x[2], x[3])]_vars

\* C24: remove_needed(symbol, interval) leaves no spec with the id derived
\* from (symbol, interval) and keeps every other spec, in order; and a tick
\* opens only feeds whose symbol is the symbol of a needed spec, so once no
\* needed spec has a symbol no tick opens a feed of it again.
C24_RemovedStaysRemoved ==
    [][/\ \A x \in NeededSpecs :
             RemoveNeeded(x[2], x[1], x[3])
             => LET Other(n) == n.id # build_stream_id(x[2], x[3])
                IN needed_streams' = SelectSeq(needed_streams, Other)
       /\ (SupSnapshot \/ SupSkip \/ SupOpen \/ SupEnd)
          => \A h \in (Len(tasks) + 1)..Len(tasks') :
                \E i \in 1..Len(needed_streams) :
                    needed_streams[i].symbol = tasks'[h].symbol]_vars

\* C24: the BTC-USDT feed was opened and has gone, no needed spec has the
\* symbol, and a tick that started after the feed went has walked the whole
\* needed list without opening anything
C24_Witness ==
    /\ \A i \in 1..Len(needed_streams) : needed_streams[i].symbol # "BTC-USDT"
    /\ \E h \in 1..Len(tasks) : tasks[h].symbol = "BTC-USDT"
    /\ \A h \in 1..Len(tasks) : ~Running(tasks[h])
    /\ stream_metas = <<>>
    /\ supPc = "loop"
    /\ supSnapshot = {}
    /\ supIdx > Len(needed_streams)


(***************************************************************************)
(* The cache with every kind of step around it: each feed polls once, the  *)
(* actor ingests klines and tickers, a caller queries, the supervisor      *)
(* ticks, the clock advances.                                               *)
(***************************************************************************)
NextFlush ==
    \/ \E h \in KlineFeeds : FetchOkKline(h, 1)
    \/ FetchOkTicker(1, {1}, 1)
    \/ ActorKline
    \/ ActorTicker
    \/ \E d \in TickSteps : Tick(d)
    \/ Query("BTC-USDT", "1m", Some(0), NoValue, NoValue)
    \/ SupSnapshot
    \/ SupSkip
    \/ SupEnd

SpecFlush == InitCache /\ [][NextFlush]_vars


BufferCleared ==
    \E k \in DOMAIN all_klines :
        k \notin DOMAIN all_klines' \/ Len(all_klines'[k]) < Len(all_klines[k])

\* C26: the Durable Store is written and a buffer is cleared only by a step
\* of add_kline that finds the interval elapsed; ticker ingestion, queries,
\* supervisor ticks, polls and the clock leave the store, the buffers and
\* last_backup alone; and an add_kline that flushes and returns leaves the
\* buffer of every key empty, whichever key its kline has.
C26_FlushOnlyOnKline ==
    [][/\ (disk' # disk \/ BufferCleared \/ last_backup' # last_backup)
          => (ActorKline /\ FlushDue)
       /\ (ActorKline /\ lastIngest'.flushed /\ lastIngest'.outcome = "ok")
          => \A k \in DOMAIN all_klines :
                k \in DOMAIN all_klines' /\ all_klines'[k] = <<>>]_vars

\* C26: both keys hold buffered klines twice the interval after the last
\* flush, with no kline on the channel; a ticker has been ingested, the
\* supervisor is in a tick and a query has just returned
C26_Witness ==
    /\ now - last_backup >= 2 * BACKUP_INTERVAL
    /\ \A k \in KlineKeys : Buffer(k) # <<>>
    /\ channel = <<>>
    /\ appliedTickers["BTC-USDT"] # <<>>
    /\ supPc = "loop"
    /\ qres.valid
    /\ disk = <<>>


\* the klines of the key the actor has received, in arrival order
Ingested(key) ==
    SubSeq(Sent(key), 1, Len(Sent(key)) - Len(PendingKlines(key)))

\* C27: while every Durable Store write has succeeded, every kline ingested
\* for a key is in the key's buffer or in a file of the Durable Store, as
\* many times as it was ingested and no more: none is lost and none is held
\* in both places.
C27_NoKlineLost ==
    actorSt = "running"
    => \A key \in KlineKeys :
          \A i \in 1..Len(Ingested(key)) :
              Count(Buffer(key) \o DiskKlines(key), Ingested(key)[i])
                 = Count(Ingested(key), Ingested(key)[i])


(***************************************************************************)
(* Lock order (under SpecLocks).                                           *)
(***************************************************************************)
\* the tasks that hold the lock p awaits
WaitsFor(p) ==
    IF Instr(p).op = "acq" THEN {q \in Procs : Instr(p).lock \in Held(q)}
    ELSE {}

\* the tasks p waits for, directly or through up to n other waiters
RECURSIVE WaitChain(_, _)
WaitChain(ps, n) ==
    IF n = 0 THEN ps
    ELSE WaitChain(ps \cup UNION {WaitsFor(q) : q \in ps}, n - 1)

LockRank(l) ==
    CASE l = "needed_streams" -> 1
      [] l = "stream_manager" -> 2
      [] l = "stream_metas" -> 3
      [] l = "market_receiver" -> 4
      [] l = "data" -> 5

\* C28: the locks never deadlock: no task waits, directly or through other
\* waiters, for a lock it holds itself, and a task that awaits a lock holds
\* only locks that come before it in the one order needed_streams,
\* stream_manager, stream_metas, market_receiver, data.
C28_NoDeadlock ==
    \A p \in Procs :
        /\ p \notin WaitChain(WaitsFor(p), Cardinality(Procs))
        /\ Instr(p).op = "acq"
           => \A h \in Held(p) : LockRank(h) < LockRank(Instr(p).lock)

\* under SpecLocksFair every task that awaits a lock gets it
LockGranted ==
    \A p \in Procs : (Instr(p).op = "acq") ~> (Instr(p).op # "acq")

\* C28: add_needed awaits needed_streams, held by the supervisor, which is
\* inside its loop awaiting stream_manager, held by close, which awaits
\* stream_metas, held by nobody else; the actor holds market_receiver and
\* awaits data, held by a query
C28_Witness ==
    /\ WaitsFor("add_needed_stream") = {"monitor"}
    /\ Held("monitor") = {"needed_streams"}
    /\ WaitsFor("monitor") = {"close_stream"}
    /\ Instr("close_stream").op = "acq"
    /\ Instr("close_stream").lock = "stream_metas"
    /\ Held("receiver") = {"market_receiver"}
    /\ WaitsFor("receiver") = {"query1"}

====
